---- MODULE Spec2Model ----
(***************************************************************************)
(* Model of the Aptos chain watcher (node/pkg/aptos/watcher.go).           *)
(*                                                                         *)
(* Watcher.Run starts one goroutine that loops on a select over            *)
(* ctx.Done(), the observation-request channel and a one second ticker,    *)
(* and then blocks in a select over ctx.Done() and the error channel.      *)
(* The goroutine can block in two places: the send on msgChan at the end   *)
(* of observeData and the send on the unbuffered errC.  The model splits   *)
(* a handler exactly at these two blocking sends; everything else of a     *)
(* handler is one step.                                                    *)
(*                                                                         *)
(* JSON strings are sequences of one-character strings, byte strings are   *)
(* sequences of numbers 0..255.                                            *)
(***************************************************************************)
EXTENDS Integers, Sequences, FiniteSets, TLC

VARIABLES
    chain,          \* the events of the contract's event handle, oldest first
    next_sequence,  \* Watcher.next_sequence, the cursor
    pc,             \* where the goroutine is: "select", "send_msg", "send_err",
                    \* "done" (returned) or "panic" (the process died)
    page,           \* the array of the event query of the current cycle
    pageI,          \* index in page of the chunk whose message is being sent
    sendMsg,        \* <<m>> while observeData blocks in e.msgChan <- m
    sendErr,        \* the error while the goroutine blocks in errC <- err
    msgs,           \* history: what the consumer received from msgChan, with
                    \* the kind of cycle that sent it and where that cycle
                    \* started (cursor or requested sequence)
    errorCount,     \* p2p.DefaultRegistry error count of the chain
    networkStats,   \* p2p.DefaultRegistry network stats of the chain
    ready,          \* readiness.SetReady(common.ReadinessAptosSyncing) was called
    cancelled,      \* ctx is done
    runResult,      \* "running", or what Run returned
    replays,        \* observation requests handled so far
    cyc,            \* history: the current (or last) cycle of the loop
    decodeIn,       \* input of a single observeData call
    decodeOut,      \* its outcome
    redeemIn,       \* a call of a redeemer: the function and its arguments
    near,           \* the NEAR contracts as the calls of redeemOnNear see them
    calls,          \* history: the remote calls the redeemer has issued
    awaiting,       \* where the redeemer is: "idle", "call" (called, not yet
                    \* run), the call it awaits, "returned" or "thrown"
    redeemOut       \* what the redeemer returned or threw

\* the variables of the single-call specification
decodeVars == <<decodeIn, decodeOut>>

\* the variables of a redeemer call
redeemVars == <<redeemIn, near, calls, awaiting, redeemOut>>

vars == <<chain, next_sequence, pc, page, pageI, sendMsg, sendErr, msgs,
          errorCount, networkStats, ready, cancelled, runResult, replays, cyc,
          decodeVars, redeemVars>>

\* no redeemer has been called
RedeemIdle ==
    /\ redeemIn = [fn |-> "none"]
    /\ near = [lookup |-> <<FALSE, "">>, asset |-> "", registered |-> {}]
    /\ calls = <<>>
    /\ awaiting = "idle"
    /\ redeemOut = <<>>

\* ------------------------------------------------------------------------
\* Bounds of the model
\* ------------------------------------------------------------------------
MaxEvents == 3      \* events the source chain emits
PageLimit == 2      \* events the event query returns for one request
MaxErrors == 1      \* failing responses the RPC node gives
MaxReplays == 1     \* observation requests delivered to the watcher

\* ------------------------------------------------------------------------
\* Bytes and strings
\* ------------------------------------------------------------------------
Zeros(n) == [i \in 1..n |-> 0]

Digits == <<"0", "1", "2", "3", "4", "5", "6", "7", "8", "9">>

HexDigits == Digits \o <<"a", "b", "c", "d", "e", "f">>

\* position of c in the table t, 0 when absent
IndexOf(t, c) == IF \E i \in 1..Len(t) : t[i] = c
                 THEN CHOOSE i \in 1..Len(t) : t[i] = c
                 ELSE 0

RECURSIVE ParseDigits(_, _)
ParseDigits(s, acc) ==
    IF s = <<>> THEN acc
    ELSE ParseDigits(Tail(s), acc * 10 + (IndexOf(Digits, Head(s)) - 1))

\* gjson Result.Uint() of a JSON string: the decimal value, 0 when the
\* string is not a plain run of digits
Uint(s) ==
    IF s # <<>> /\ \A i \in 1..Len(s) : IndexOf(Digits, s[i]) # 0
    THEN ParseDigits(s, 0)
    ELSE 0

\* binary.BigEndian.PutUint64 into a fresh 8 byte slice
RECURSIVE BigEndianBytes(_, _)
BigEndianBytes(n, len) ==
    IF len = 0 THEN <<>>
    ELSE Append(BigEndianBytes(n \div 256, len - 1), n % 256)

PutUint64(n) == BigEndianBytes(n, 8)

\* binary.BigEndian.Uint64 reads the first 8 bytes of the slice
RECURSIVE BytesValue(_, _)
BytesValue(b, acc) ==
    IF b = <<>> THEN acc ELSE BytesValue(Tail(b), acc * 256 + Head(b))

BigEndianUint64(b) == BytesValue(SubSeq(b, 1, 8), 0)

\* eth_common.BytesToHash: right-aligned in 32 bytes, cropped from the left
BytesToHash(b) ==
    IF Len(b) >= 32 THEN SubSeq(b, Len(b) - 31, Len(b))
    ELSE Zeros(32 - Len(b)) \o b

\* vaa.Address with the 8 emitter bytes copied to a[24:]
EmitterAddress(em_uint) == Zeros(24) \o PutUint64(em_uint)

\* hex.DecodeString: <<FALSE, <<>>>> on odd length or a non-hex character
RECURSIVE HexBytes(_)
HexBytes(s) ==
    IF s = <<>> THEN <<>>
    ELSE <<(IndexOf(HexDigits, s[1]) - 1) * 16 + (IndexOf(HexDigits, s[2]) - 1)>>
         \o HexBytes(SubSeq(s, 3, Len(s)))

HexDecodeString(s) ==
    IF Len(s) % 2 = 0 /\ \A i \in 1..Len(s) : IndexOf(HexDigits, s[i]) # 0
    THEN <<TRUE, HexBytes(s)>>
    ELSE <<FALSE, <<>>>>

\* ------------------------------------------------------------------------
\* Source events
\* ------------------------------------------------------------------------
DataFields == {"sender", "payload", "timestamp", "nonce", "sequence",
               "consistency_level"}

\* the "data" object of an event: has is the set of keys that are present
EventData(has, sender, payload, sequence) ==
    [has |-> has, sender |-> sender, payload |-> payload,
     timestamp |-> 1, nonce |-> 7, sequence |-> sequence,
     consistency_level |-> 0]

Exists(data, field) == field \in data.has

PayloadOk == <<"0", "x", "0", "1">>
PayloadBadHex == <<"0", "x", "z", "z">>
PayloadShort == <<"0">>

\* one element of the array the event query returns
Chunk(has, sequence_number, data) ==
    [has |-> has, sequence_number |-> sequence_number, data |-> data]

ChunkFields == {"sequence_number", "data"}

\* ------------------------------------------------------------------------
\* observeData, up to its send on msgChan
\* ------------------------------------------------------------------------
Drop == [kind |-> "drop", msg |-> <<>>]
Panic == [kind |-> "panic", msg |-> <<>>]
Emit(m) == [kind |-> "emit", msg |-> <<m>>]

\* a watcher that accepts every sender
InvalidEmitter_None(em_string) == FALSE

\* the emitter check of lines 102-107
InvalidEmitter(em_string) == em_string # <<"0">> /\ Uint(em_string) = 0

\* v.String()[2:] panics on a string shorter than two characters
SliceFrom2Panics(s) == Len(s) < 2

MessagePublication(data, native_seq, pl) ==
    [TxHash |-> BytesToHash(PutUint64(native_seq)),
     Timestamp |-> data.timestamp,
     Nonce |-> data.nonce,
     Sequence |-> data.sequence,
     EmitterChain |-> "aptos",
     EmitterAddress |-> EmitterAddress(Uint(data.sender)),
     Payload |-> pl,
     ConsistencyLevel |-> data.consistency_level % 256]

observeData(data, native_seq) ==
    IF ~Exists(data, "sender") THEN Drop
    ELSE IF InvalidEmitter(data.sender) THEN Drop
    ELSE IF ~Exists(data, "payload") THEN Drop
    ELSE IF SliceFrom2Panics(data.payload) THEN Panic
    ELSE LET pl == HexDecodeString(SubSeq(data.payload, 3, Len(data.payload)))
         IN  IF ~pl[1] THEN Drop
             ELSE IF ~Exists(data, "timestamp") THEN Drop
             ELSE IF ~Exists(data, "nonce") THEN Drop
             ELSE IF ~Exists(data, "sequence") THEN Drop
             ELSE IF ~Exists(data, "consistency_level") THEN Drop
             ELSE Emit(MessagePublication(data, native_seq, pl[2]))

\* ------------------------------------------------------------------------
\* The RPC node
\* ------------------------------------------------------------------------
Min(a, b) == IF a < b THEN a ELSE b

Body(kind, p) == [kind |-> kind, page |-> p]

\* a watcher that does not validate the response
Valid_Always(body) == TRUE

\* gjson.Valid: the empty string is not valid JSON
Valid(body) == body.kind = "json"

\* GET <aptosQuery>?limit=1 : the most recent event
LatestEvents(limit) ==
    SubSeq(chain, Len(chain) - Min(limit, Len(chain)) + 1, Len(chain))

\* GET <aptosQuery>?start=<start> : the events from start on, one page
EventsFrom(start, limit) ==
    SubSeq(chain, start + 1, Min(start + limit, Len(chain)))

Failing == IF errorCount < MaxErrors THEN {"err", "invalid"} ELSE {}

\* retrievePayload of the poll cycle's query (lines 252-259)
PollBodies ==
    {Body(k, <<>>) : k \in Failing \cup {"empty"}}
    \cup {Body("json", IF next_sequence = 0 THEN LatestEvents(1)
                       ELSE EventsFrom(next_sequence, PageLimit))}

\* retrievePayload of the replay cycle's query (lines 213-215): at most one
\* event; a node that answers with another event than the requested one is
\* the case line 238 guards against
ReplayBodies ==
    {Body(k, <<>>) : k \in Failing \cup {"json"}}
    \cup {Body("json", <<chain[i]>>) : i \in 1..Len(chain)}

Heights == {5}

Health(kind, has_height, block_height) ==
    [kind |-> kind, has_height |-> has_height, block_height |-> block_height]

\* retrievePayload(e.aptosHealth) (line 300)
HealthBodies ==
    {Health(k, FALSE, 0) : k \in Failing \cup {"json"}}
    \cup {Health("json", TRUE, h) : h \in Heights}

\* ------------------------------------------------------------------------
\* The loops over the chunks of a response, up to the next blocking send
\* ------------------------------------------------------------------------
Walk(cursor, stop, at, msg) ==
    [cursor |-> cursor, stop |-> stop, at |-> at, msg |-> msg]

\* a cursor that is set to the event it has just seen
NextSequence_NoAdvance(native_seq) == native_seq

\* e.next_sequence = native_seq.Uint() + 1 (lines 287 and 290)
NextSequence(native_seq) == native_seq + 1

\* a poll loop that treats the uninitialized cursor like any other
RECURSIVE PollWalk_NoColdStart(_, _, _)
PollWalk_NoColdStart(p, i, cur) ==
    IF i > Len(p) THEN Walk(cur, "end", 0, <<>>)
    ELSE IF "sequence_number" \notin p[i].has
         THEN PollWalk_NoColdStart(p, i + 1, cur)
    ELSE LET cur2 == NextSequence(p[i].sequence_number)
             o == observeData(p[i].data, p[i].sequence_number)
         IN  IF "data" \notin p[i].has THEN PollWalk_NoColdStart(p, i + 1, cur2)
             ELSE IF o.kind = "drop" THEN PollWalk_NoColdStart(p, i + 1, cur2)
             ELSE IF o.kind = "panic" THEN Walk(cur2, "panic", i, <<>>)
             ELSE Walk(cur2, "send", i, o.msg)

\* lines 281-298, from chunk i of page p on, with cursor cur
RECURSIVE PollWalk(_, _, _)
PollWalk(p, i, cur) ==
    IF i > Len(p) THEN Walk(cur, "end", 0, <<>>)
    ELSE IF "sequence_number" \notin p[i].has THEN PollWalk(p, i + 1, cur)
    ELSE IF cur = 0
         THEN Walk(NextSequence(p[i].sequence_number), "end", 0, <<>>)
    ELSE LET cur2 == NextSequence(p[i].sequence_number)
             o == observeData(p[i].data, p[i].sequence_number)
         IN  IF "data" \notin p[i].has THEN PollWalk(p, i + 1, cur2)
             ELSE IF o.kind = "drop" THEN PollWalk(p, i + 1, cur2)
             ELSE IF o.kind = "panic" THEN Walk(cur2, "panic", i, <<>>)
             ELSE Walk(cur2, "send", i, o.msg)

\* a replay that does not compare the returned sequence with the request
RECURSIVE ReplayWalk_NoCompare(_, _, _, _)
ReplayWalk_NoCompare(p, i, native_seq, cur) ==
    IF i > Len(p) THEN Walk(cur, "end", 0, <<>>)
    ELSE IF "sequence_number" \notin p[i].has THEN Walk(cur, "end", 0, <<>>)
    ELSE IF "data" \notin p[i].has THEN Walk(cur, "end", 0, <<>>)
    ELSE LET o == observeData(p[i].data, native_seq)
         IN  IF o.kind = "drop"
             THEN ReplayWalk_NoCompare(p, i + 1, native_seq, cur)
             ELSE IF o.kind = "panic" THEN Walk(cur, "panic", i, <<>>)
             ELSE Walk(cur, "send", i, o.msg)

\* lines 232-249, from chunk i of page p on, for the request native_seq
RECURSIVE ReplayWalk(_, _, _, _)
ReplayWalk(p, i, native_seq, cur) ==
    IF i > Len(p) THEN Walk(cur, "end", 0, <<>>)
    ELSE IF "sequence_number" \notin p[i].has THEN Walk(cur, "end", 0, <<>>)
    ELSE IF p[i].sequence_number # native_seq THEN Walk(cur, "end", 0, <<>>)
    ELSE IF "data" \notin p[i].has THEN Walk(cur, "end", 0, <<>>)
    ELSE LET o == observeData(p[i].data, native_seq)
         IN  IF o.kind = "drop" THEN ReplayWalk(p, i + 1, native_seq, cur)
             ELSE IF o.kind = "panic" THEN Walk(cur, "panic", i, <<>>)
             ELSE Walk(cur, "send", i, o.msg)

\* ------------------------------------------------------------------------
\* Initial state: Run has registered the contract address (lines 184-186)
\* and started the goroutine; the cursor is 0 (line 70)
\* ------------------------------------------------------------------------
aptosAccount == "0x1"

Cycle(kind, query, start, sent, health) ==
    [kind |-> kind, query |-> query, start |-> start, sent |-> sent,
     health |-> health]

NoData == EventData({}, <<>>, <<>>, 0)

InitWatcher ==
    /\ chain = <<>>
    /\ next_sequence = 0
    /\ pc = "select"
    /\ page = <<>>
    /\ pageI = 0
    /\ sendMsg = <<>>
    /\ sendErr = "none"
    /\ msgs = <<>>
    /\ errorCount = 0
    /\ networkStats = [Height |-> 0, ContractAddress |-> aptosAccount]
    /\ ready = FALSE
    /\ cancelled = FALSE
    /\ runResult = "running"
    /\ replays = 0
    /\ cyc = Cycle("none", "none", 0, 0, "none")

Init ==
    /\ InitWatcher
    /\ decodeIn = NoData
    /\ decodeOut = <<>>
    /\ RedeemIdle

\* ------------------------------------------------------------------------
\* The source chain
\* ------------------------------------------------------------------------
AllFields == DataFields

Good(sender, sequence) == EventData(AllFields, sender, PayloadOk, sequence)

\* an event without timestamp whose payload string has one character
ShortPayload == EventData(AllFields \ {"timestamp"}, <<"1">>, PayloadShort, 0)

\* the events the contract and the node can produce in the model: complete
\* ones of two emitters, the one with the short payload, a chunk without
\* "data" and a chunk without "sequence_number"
SourceChunks(n) ==
    {Chunk(ChunkFields, n, Good(<<"1">>, 0)),
     Chunk(ChunkFields, n, Good(<<"1">>, 1)),
     Chunk(ChunkFields, n, Good(<<"2">>, 0)),
     Chunk(ChunkFields, n, ShortPayload),
     Chunk({"sequence_number"}, n, NoData),
     Chunk({"data"}, n, Good(<<"1">>, 0))}

\* the smaller alphabets of the specifications that vary something else
ReplayChunks(n) ==
    {Chunk(ChunkFields, n, Good(<<"1">>, 0)),
     Chunk(ChunkFields, n, Good(<<"2">>, 0)),
     Chunk(ChunkFields, n, ShortPayload)}

ControlChunks(n) == {Chunk(ChunkFields, n, Good(<<"1">>, 0))}

FairChunks(n) ==
    {Chunk(ChunkFields, n, Good(<<"1">>, 0)),
     Chunk(ChunkFields, n, ShortPayload)}

AppendEvent(c) ==
    /\ Len(chain) < MaxEvents
    /\ chain' = Append(chain, c)
    /\ UNCHANGED <<next_sequence, pc, page, pageI, sendMsg, sendErr, msgs,
                   errorCount, networkStats, ready, cancelled, runResult,
                   replays, cyc,
                   decodeVars, redeemVars>>

\* ------------------------------------------------------------------------
\* The goroutine of Run (lines 196-332)
\* ------------------------------------------------------------------------

\* lines 300-329: the health query and what follows it
HealthCycle(c, h) ==
    IF h.kind = "err"
    THEN /\ errorCount' = errorCount + 1
         /\ pc' = "send_err"
         /\ sendErr' = "health"
         /\ cyc' = [c EXCEPT !.health = "err"]
         /\ UNCHANGED <<networkStats, ready>>
    ELSE IF ~Valid(h)
    THEN /\ errorCount' = errorCount + 1
         /\ pc' = "select"
         /\ sendErr' = "none"
         /\ cyc' = [c EXCEPT !.health = "invalid"]
         /\ UNCHANGED <<networkStats, ready>>
    ELSE IF h.has_height
    THEN /\ networkStats' = [Height |-> h.block_height,
                             ContractAddress |-> aptosAccount]
         /\ ready' = TRUE
         /\ pc' = "select"
         /\ sendErr' = "none"
         /\ cyc' = [c EXCEPT !.health = "ok"]
         /\ UNCHANGED errorCount
    ELSE /\ pc' = "select"
         /\ sendErr' = "none"
         /\ cyc' = [c EXCEPT !.health = "noheight"]
         /\ UNCHANGED <<errorCount, networkStats, ready>>

\* the chunk loop of cycle c from chunk i of page p on, and the rest of the
\* cycle when the loop ends
Continue(c, p, i, h) ==
    LET w == IF c.kind = "poll" THEN PollWalk(p, i, next_sequence)
             ELSE ReplayWalk(p, i, c.start, next_sequence)
    IN  /\ next_sequence' = w.cursor
        /\ page' = p
        /\ pageI' = w.at
        /\ sendMsg' = w.msg
        /\ IF w.stop = "send"
           THEN /\ pc' = "send_msg"
                /\ cyc' = c
                /\ UNCHANGED <<sendErr, errorCount, networkStats, ready>>
           ELSE IF w.stop = "panic"
           THEN /\ pc' = "panic"
                /\ cyc' = c
                /\ UNCHANGED <<sendErr, errorCount, networkStats, ready>>
           ELSE IF c.kind = "poll"
           THEN HealthCycle(c, h)
           ELSE /\ pc' = "select"
                /\ cyc' = c
                /\ UNCHANGED <<sendErr, errorCount, networkStats, ready>>

\* a loop that logs and counts a transport failure without errC <- err
EndCycle_NoErrC(c, fatal, counted) ==
    /\ cyc' = c
    /\ errorCount' = IF counted THEN errorCount + 1 ELSE errorCount
    /\ pc' = "select"
    /\ sendErr' = "none"
    /\ page' = <<>>
    /\ pageI' = 0
    /\ sendMsg' = <<>>
    /\ UNCHANGED <<next_sequence, networkStats, ready>>

\* a cycle that ends before the chunk loop: errC <- err (fatal = TRUE) or
\* break / continue back to the select
EndCycle(c, fatal, counted) ==
    /\ cyc' = c
    /\ errorCount' = IF counted THEN errorCount + 1 ELSE errorCount
    /\ pc' = IF fatal THEN "send_err" ELSE "select"
    /\ sendErr' = IF fatal THEN c.kind ELSE "none"
    /\ page' = <<>>
    /\ pageI' = 0
    /\ sendMsg' = <<>>
    /\ UNCHANGED <<next_sequence, networkStats, ready>>

\* case <-timer.C (lines 251-329)
PollTick(body, h) ==
    /\ pc = "select"
    /\ LET c == Cycle("poll", body.kind, next_sequence, 0, "none")
       IN  IF body.kind = "err" THEN EndCycle(c, TRUE, TRUE)
           ELSE IF body.kind = "empty" THEN EndCycle(c, FALSE, FALSE)
           ELSE IF ~Valid(body) THEN EndCycle(c, FALSE, TRUE)
           ELSE Continue(c, body.page, 1, h)
    /\ UNCHANGED <<chain, msgs, cancelled, runResult, replays,
                   decodeVars, redeemVars>>

Request(ChainId, TxHash) == [ChainId |-> ChainId, TxHash |-> TxHash]

\* the observation requests the watcher can receive
Requests ==
    {Request("aptos", PutUint64(n)) : n \in 0..(MaxEvents - 1)}
    \cup {Request("aptos", BytesToHash(PutUint64(n))) : n \in 1..(MaxEvents - 1)}
    \cup {Request("aptos", <<0, 0, 0, 1>>), Request("solana", PutUint64(0))}

\* the requests of the specification that varies the failures
ControlRequests ==
    {Request("aptos", PutUint64(0)), Request("solana", PutUint64(0))}

\* case r := <-e.obsvReqC (lines 204-249)
ReplayRequest(r, body) ==
    /\ pc = "select"
    /\ replays < MaxReplays
    /\ replays' = replays + 1
    /\ IF r.ChainId # "aptos" \/ Len(r.TxHash) < 8
       THEN /\ pc' = "panic"
            /\ UNCHANGED <<next_sequence, page, pageI, sendMsg, sendErr,
                           errorCount, networkStats, ready, cyc>>
       ELSE LET native_seq == BigEndianUint64(r.TxHash)
                c == Cycle("replay", body.kind, native_seq, 0, "none")
            IN  IF body.kind = "err" THEN EndCycle(c, TRUE, TRUE)
                ELSE IF ~Valid(body) THEN EndCycle(c, FALSE, TRUE)
                ELSE Continue(c, body.page, 1, Health("json", FALSE, 0))
    /\ UNCHANGED <<chain, msgs, cancelled, runResult,
                   decodeVars, redeemVars>>

\* the consumer receives from msgChan: the send of line 180 completes and
\* the cycle goes on with the next chunk
Receive(h) ==
    /\ pc = "send_msg"
    /\ msgs' = Append(msgs, [origin |-> cyc.kind, start |-> cyc.start,
                             msg |-> sendMsg[1]])
    /\ Continue([cyc EXCEPT !.sent = @ + 1], page, pageI + 1, h)
    /\ UNCHANGED <<chain, cancelled, runResult, replays,
                   decodeVars, redeemVars>>

\* case <-ctx.Done() of the goroutine (lines 202-203)
LoopCtxDone ==
    /\ pc = "select"
    /\ cancelled
    /\ pc' = "done"
    /\ UNCHANGED <<chain, next_sequence, page, pageI, sendMsg, sendErr, msgs,
                   errorCount, networkStats, ready, cancelled, runResult,
                   replays, cyc,
                   decodeVars, redeemVars>>

\* ------------------------------------------------------------------------
\* Run's final select (lines 334-339) and the context
\* ------------------------------------------------------------------------
RunRecvErr ==
    /\ runResult = "running"
    /\ pc = "send_err"
    /\ runResult' = sendErr
    /\ pc' = "select"
    /\ sendErr' = "none"
    /\ UNCHANGED <<chain, next_sequence, page, pageI, sendMsg, msgs,
                   errorCount, networkStats, ready, cancelled, replays, cyc,
                   decodeVars, redeemVars>>

RunCtxDone ==
    /\ runResult = "running"
    /\ pc # "panic"
    /\ cancelled
    /\ runResult' = "ctx"
    /\ UNCHANGED <<chain, next_sequence, pc, page, pageI, sendMsg, sendErr,
                   msgs, errorCount, networkStats, ready, cancelled, replays,
                   cyc,
                   decodeVars, redeemVars>>

Cancel ==
    /\ ~cancelled
    /\ pc # "panic"
    /\ cancelled' = TRUE
    /\ UNCHANGED <<chain, next_sequence, pc, page, pageI, sendMsg, sendErr,
                   msgs, errorCount, networkStats, ready, runResult, replays,
                   cyc,
                   decodeVars, redeemVars>>

\* the responses without failure
HealthOk == Health("json", TRUE, 5)

Answering(bodies) == {b \in bodies : b.kind \in {"empty", "json"}}

\* every interleaving of the loop, Run, the context and the RPC failures,
\* over complete events
Next ==
    \/ \E c \in ControlChunks(Len(chain)) : AppendEvent(c)
    \/ \E body \in PollBodies, h \in HealthBodies : PollTick(body, h)
    \/ \E r \in ControlRequests, body \in ReplayBodies :
          ReplayRequest(r, body)
    \/ \E h \in HealthBodies : Receive(h)
    \/ LoopCtxDone
    \/ RunRecvErr
    \/ RunCtxDone
    \/ Cancel

Spec == Init /\ [][Next]_vars

\* poll cycles over every kind of event, with an RPC node that answers
PollNext ==
    \/ \E c \in SourceChunks(Len(chain)) : AppendEvent(c)
    \/ \E body \in Answering(PollBodies) : PollTick(body, HealthOk)
    \/ Receive(HealthOk)

PollSpec == Init /\ [][PollNext]_vars

\* poll and replay cycles, with an RPC node that answers with an array
ReplayNext ==
    \/ \E c \in ReplayChunks(Len(chain)) : AppendEvent(c)
    \/ \E body \in Answering(PollBodies) \ {Body("empty", <<>>)} :
          PollTick(body, HealthOk)
    \/ \E r \in Requests, body \in Answering(ReplayBodies) :
          ReplayRequest(r, body)
    \/ Receive(HealthOk)

ReplaySpec == Init /\ [][ReplayNext]_vars

\* single calls of observeData, over every combination of present keys
DecodeInputs ==
    {EventData(has, sender, payload, sequence) :
        has \in SUBSET DataFields,
        sender \in {<<"0">>, <<"1">>, <<"a", "b", "c">>},
        payload \in {PayloadOk, PayloadBadHex, PayloadShort, <<>>, <<"0", "x">>},
        sequence \in {0, 1}}

DecodeInit ==
    /\ InitWatcher
    /\ decodeIn \in DecodeInputs
    /\ decodeOut = <<>>
    /\ RedeemIdle

Decode(native_seq) ==
    /\ decodeOut = <<>>
    /\ decodeOut' = <<observeData(decodeIn, native_seq)>>
    /\ UNCHANGED <<chain, next_sequence, pc, page, pageI, sendMsg, sendErr,
                   msgs, errorCount, networkStats, ready, cancelled, runResult,
                   replays, cyc, decodeIn, redeemVars>>

DecodeNext == \E native_seq \in {0, 1} : Decode(native_seq)

DecodeSpec == DecodeInit /\ [][DecodeNext]_vars

\* single calls of observeData on complete events, over sender strings:
\* each with its decimal value, -1 when the string is no run of digits
EmitterCases ==
    { <<(<<"0">>), 0>>,
      <<(<<"0", "0">>), 0>>,
      <<(<<"1">>), 1>>,
      <<(<<"0", "0", "7">>), 7>>,
      <<(<<"2", "5", "8">>), 258>>,
      <<(<<"6", "5", "5", "3", "6">>), 65536>>,
      <<(<<"2", "1", "4", "7", "4", "8", "3", "6", "4", "7">>), 2147483647>>,
      <<(<<>>), -1>>,
      <<(<<"a", "b", "c">>), -1>>,
      <<(<<"1", "2", "a">>), -1>>,
      <<(<<"-", "1">>), -1>>,
      <<(<<"0", "x", "1">>), -1>>,
      <<(<<"1", ".", "5">>), -1>> }

EmitterInputs ==
    {EventData(DataFields, c[1], payload, sequence) :
        c \in EmitterCases,
        payload \in {PayloadOk, <<"0", "x">>},
        sequence \in {0, 1}}

EmitterInit ==
    /\ InitWatcher
    /\ decodeIn \in EmitterInputs
    /\ decodeOut = <<>>
    /\ RedeemIdle

EmitterSpec == EmitterInit /\ [][DecodeNext]_vars

\* poll cycles under the conditions of at-least-once observation: the
\* ticker keeps firing and the node answers with a page (PollPage is taken
\* when it stays enabled), the consumer keeps receiving, there is no
\* transport failure and no cancellation
PollPage ==
    \E body \in {b \in PollBodies : b.kind = "json"} :
        PollTick(body, HealthOk)

PollEmpty == PollTick(Body("empty", <<>>), HealthOk)

FairNext ==
    \/ \E c \in FairChunks(Len(chain)) : AppendEvent(c)
    \/ PollPage
    \/ PollEmpty
    \/ Receive(HealthOk)

FairSpec ==
    /\ Init
    /\ [][FairNext]_vars
    /\ WF_vars(PollPage)
    /\ WF_vars(Receive(HealthOk))

\* every interleaving of Next under the scheduler's guarantees after a
\* cancellation: a select that is reached again and again with ctx.Done()
\* ready takes that case at some point, in the goroutine (lines 200-203) and
\* in Run (lines 334-336), and Run receives an error that is offered to it
\* (lines 337-338).  Nothing obliges the consumer of msgChan to receive.
CancelSpec ==
    /\ Init
    /\ [][Next]_vars
    /\ SF_vars(LoopCtxDone)
    /\ WF_vars(RunCtxDone)
    /\ WF_vars(RunRecvErr)

\* ========================================================================
\* The redeemers (sdk/js token_bridge redeem: redeemOnNear, redeemOnSolana,
\* redeemAndUnwrapOnSolana)
\*
\* A redeemer is an async function.  The model runs it from one awaited
\* remote call to the next: a step takes the response of the call in flight
\* (or its rejection, which the function does not catch) and runs the code
\* up to the next remote call, the return or the throw.
\* ========================================================================

\* constants the redeemers import from ../utils
CHAIN_ID_SOLANA == 1
CHAIN_ID_NEAR == 15
WSOL_DECIMALS == 9
MAX_VAA_DECIMALS == 8

MaxAmount == 25     \* largest wire amount of a transfer

ZeroAddress == Zeros(32)
TokenAddress == Zeros(31) \o <<7>>
ReceiverAddress == Zeros(31) \o <<9>>
SenderAddress == Zeros(31) \o <<5>>
NonZeroFee == Zeros(31) \o <<3>>

\* the fields of a token transfer: Type 1 carries a fee, Type 3 (transfer
\* with payload) carries the sender's address in its place
Transfer(Type, Amount, Contract, FromChain, ToChain, Fee) ==
    [Type |-> Type, Amount |-> Amount, Contract |-> Contract,
     FromChain |-> FromChain, ToAddress |-> ReceiverAddress,
     ToChain |-> ToChain, Fee |-> Fee]

\* the payload bytes of a transfer: type (1), amount (32), token address
\* (32), token chain (2), recipient (32), recipient chain (2), then the fee
\* or the sender's address (32)
TransferPayload(t) ==
    <<t.Type>> \o BigEndianBytes(t.Amount, 32) \o t.Contract
        \o BigEndianBytes(t.FromChain, 2) \o t.ToAddress
        \o BigEndianBytes(t.ToChain, 2)
        \o (IF t.Type = 1 THEN t.Fee ELSE SenderAddress)

\* a reader that takes the low byte only
ReadUInt16BE_LowByte(buf, offset) == buf[offset + 2]

\* Buffer.readUInt16BE(offset), offset counted from 0
ReadUInt16BE(buf, offset) == buf[offset + 1] * 256 + buf[offset + 2]

\* _parseVAAAlgorand, the fields redeemOnNear reads: Fee is undefined
\* (<<>>) unless the payload is a Type 1 transfer
parseVAAAlgorand(payload) ==
    [Contract |-> SubSeq(payload, 34, 65),
     FromChain |-> ReadUInt16BE(payload, 65),
     ToAddress |-> SubSeq(payload, 68, 99),
     ToChain |-> ReadUInt16BE(payload, 99),
     Fee |-> IF payload[1] = 1 THEN SubSeq(payload, 102, 133) ELSE <<>>]

\* parseTransferPayload, the fields redeemAndUnwrapOnSolana reads
parseTransferPayload(payload) ==
    [amount |-> BytesValue(SubSeq(payload, 2, 33), 0),
     targetAddress |-> SubSeq(payload, 68, 99)]

\* hexToNativeString(address, CHAIN_ID_SOLANA): <<>> is undefined
hexToNativeString(address) ==
    IF Len(address) = 32 THEN <<address>> ELSE <<>>

\* ------------------------------------------------------------------------
\* What a run of a redeemer up to its next remote call gives
\* ------------------------------------------------------------------------
Going(to, call) == [awaiting |-> to, call |-> <<call>>, out |-> <<>>]

Throw(cause) ==
    [awaiting |-> "thrown", call |-> <<>>,
     out |-> <<[kind |-> "error", value |-> cause]>>]

Return(value) ==
    [awaiting |-> "returned", call |-> <<>>,
     out |-> <<[kind |-> "return", value |-> value]>>]

\* ------------------------------------------------------------------------
\* redeemOnNear
\* ------------------------------------------------------------------------
tokenBridge == "token-bridge"
clientAccountId == "payer"
Accounts == {"alice", clientAccountId}

\* client.viewFunction and client.functionCall; site is the line of the
\* call in the source
ViewFunction(contractId, methodName, args, site) ==
    [change |-> FALSE, contractId |-> contractId, methodName |-> methodName,
     args |-> args, site |-> site]

FunctionCall(contractId, methodName, args, site) ==
    [change |-> TRUE, contractId |-> contractId, methodName |-> methodName,
     args |-> args, site |-> site]

\* getForeignAssetNear: the token contract of the asset, "" when the asset
\* has no attestation
getForeignAssetNear(n, FromChain, Contract) == n.asset

\* the token's storage_balance_of: null for an account without registration
StorageBalanceOf(n, account_id) ==
    IF account_id \in n.registered THEN "balance" ELSE "null"

\* a lookup that takes every receiver as resolved
ReceiverResolved_Always(user) == TRUE

\* the check of the hash_lookup response (line 261)
ReceiverResolved(user) == user[1]

\* a registration that does not look at the balance
NeedsDeposit_Always(bal) == TRUE

\* bal === null (lines 288, 319)
NeedsDeposit(bal) == bal = "null"

\* the fee test of lines 301-310
HasFee(p) == p.Fee # <<>> /\ p.Fee # ZeroAddress

\* the outcome of the n-th remote call, and getTransactionLastResult of it
Outcome(n) == [status |-> "SuccessValue", of |-> n]
getTransactionLastResult(result) == result.of

\* a redeemer that returns the first submission's result
Result_First(first, second) == first

\* result is assigned twice (lines 334, 344): the second value stays
Result(first, second) == second

SubmitVaa(to, vaa, site) ==
    Going(to, FunctionCall(tokenBridge, "submit_vaa", vaa, site))

StorageDeposit(to, token, account_id, site) ==
    Going(to, FunctionCall(token, "storage_deposit", account_id, site))

\* lines 301-331 up to the next remote call
FeePayerCheck(p, token, vaa) ==
    IF HasFee(p)
    THEN Going("fee_balance",
               ViewFunction(token, "storage_balance_of", clientAccountId, 311))
    ELSE SubmitVaa("submit_vaa_1", vaa, 334)

\* redeemOnNear from the response of the call in flight (from its start when
\* at = "call") to its next remote call; n counts the calls issued so far
redeemOnNear(vaa, at, nr, n) ==
    LET p == parseVAAAlgorand(vaa)
        user == nr.lookup
        token == getForeignAssetNear(nr, p.FromChain, p.Contract)
    IN  CASE at = "call" ->
               IF p.ToChain # CHAIN_ID_NEAR
               THEN Throw("Not destined for NEAR")
               ELSE Going("hash_lookup",
                          ViewFunction(tokenBridge, "hash_lookup",
                                       p.ToAddress, 257))
          [] at = "hash_lookup" ->
               IF ~ReceiverResolved(user)
               THEN Throw("Unregistered receiver")
               ELSE Going("get_foreign_asset",
                          ViewFunction(tokenBridge, "get_foreign_asset",
                                       p.Contract, 269))
          [] at = "get_foreign_asset" ->
               IF token = "" THEN Throw("Unregistered token")
               ELSE IF p.Contract # ZeroAddress
               THEN Going("receiver_balance",
                          ViewFunction(token, "storage_balance_of",
                                       user[2], 284))
               ELSE SubmitVaa("submit_vaa_1", vaa, 334)
          [] at = "receiver_balance" ->
               IF NeedsDeposit(StorageBalanceOf(nr, user[2]))
               THEN StorageDeposit("receiver_deposit", token, user[2], 291)
               ELSE FeePayerCheck(p, token, vaa)
          [] at = "receiver_deposit" -> FeePayerCheck(p, token, vaa)
          [] at = "fee_balance" ->
               IF NeedsDeposit(StorageBalanceOf(nr, clientAccountId))
               THEN StorageDeposit("fee_deposit", token, clientAccountId, 322)
               ELSE SubmitVaa("submit_vaa_1", vaa, 334)
          [] at = "fee_deposit" -> SubmitVaa("submit_vaa_1", vaa, 334)
          [] at = "submit_vaa_1" -> SubmitVaa("submit_vaa_2", vaa, 344)
          [] at = "submit_vaa_2" ->
               Return(getTransactionLastResult(
                          Result(Outcome(n - 1), Outcome(n))))

\* what the call in flight does to the contracts when it succeeds
Executed(nr, call) ==
    IF call.methodName = "storage_deposit"
    THEN [nr EXCEPT !.registered = @ \cup {call.args}]
    ELSE nr

\* ------------------------------------------------------------------------
\* redeemOnSolana and redeemAndUnwrapOnSolana
\* ------------------------------------------------------------------------
payerAddress == "payer-key"
WSOL_ADDRESS == "wsol-mint"

\* the payer signs instead of the temporary account
Signer_Payer(ancillaryKeypair, payer) == payer

\* transaction.partialSign(ancillaryKeypair) (line 162)
Signer(ancillaryKeypair, payer) == ancillaryKeypair

Transaction(instructions, feePayer, signatures) ==
    [instructions |-> instructions, feePayer |-> feePayer,
     signatures |-> signatures]

\* the rescaling of lines 99-102
targetAmount(amount, dst, max) == amount * (dst - max) * 10

\* the outcome of the awaited connection calls: a rejection, or the rent
\* exempt balance; the functions build the transaction and send nothing
Rpc(rejected, rentBalance) ==
    [rejected |-> rejected, rentBalance |-> rentBalance]

redeemAndUnwrapOnSolana(signedVAA, rpc) ==
    LET parsedPayload == parseTransferPayload(signedVAA)
        targetAddress == hexToNativeString(parsedPayload.targetAddress)
        rentBalance == rpc.rentBalance
        ancillaryKeypair == "ancillary-key"
        completeTransferIx ==
            [name |-> "complete_transfer_native", payer |-> payerAddress,
             vaa |-> signedVAA]
        createAncillaryAccountIx ==
            [name |-> "createAccount", fromPubkey |-> payerAddress,
             newAccountPubkey |-> ancillaryKeypair, lamports |-> rentBalance]
        initAccountIx ==
            [name |-> "initAccount", mint |-> WSOL_ADDRESS,
             account |-> ancillaryKeypair, owner |-> payerAddress]
        balanceTransferIx ==
            [name |-> "transfer", source |-> targetAddress[1],
             destination |-> ancillaryKeypair, owner |-> payerAddress,
             amount |-> targetAmount(parsedPayload.amount, WSOL_DECIMALS,
                                     MAX_VAA_DECIMALS)]
        closeAccountIx ==
            [name |-> "closeAccount", account |-> ancillaryKeypair,
             destination |-> payerAddress, authority |-> payerAddress]
    IN  IF targetAddress = <<>>
        THEN Throw("Failed to read the target address.")
        ELSE IF rpc.rejected THEN Throw("rejected")
        ELSE Return(Transaction(
                 <<completeTransferIx, createAncillaryAccountIx,
                   initAccountIx, balanceTransferIx, closeAccountIx>>,
                 payerAddress,
                 {Signer(ancillaryKeypair, payerAddress)}))

redeemOnSolana(signedVAA, rpc) ==
    IF Len(signedVAA) < 67 THEN Throw("RangeError")
    ELSE LET isSolanaNative ==
                 ReadUInt16BE(signedVAA, 65) = CHAIN_ID_SOLANA
             ixs ==
                 IF isSolanaNative
                 THEN <<[name |-> "complete_transfer_native",
                         payer |-> payerAddress, vaa |-> signedVAA]>>
                 ELSE <<[name |-> "complete_transfer_wrapped",
                         payer |-> payerAddress, vaa |-> signedVAA]>>
         IN  IF rpc.rejected THEN Throw("rejected")
             ELSE Return(Transaction(ixs, payerAddress, {}))

\* ------------------------------------------------------------------------
\* Calls of the redeemers
\* ------------------------------------------------------------------------
Amounts == {1, MaxAmount}
OriginChains == {CHAIN_ID_SOLANA, CHAIN_ID_NEAR, 256 + CHAIN_ID_SOLANA}
TargetChains == {CHAIN_ID_SOLANA, CHAIN_ID_NEAR}

Transfers ==
    {Transfer(1, a, c, from, to, fee) :
        a \in Amounts, c \in {ZeroAddress, TokenAddress},
        from \in OriginChains, to \in TargetChains,
        fee \in {ZeroAddress, NonZeroFee}}
    \cup
    {Transfer(3, a, c, from, to, ZeroAddress) :
        a \in Amounts, c \in {ZeroAddress, TokenAddress},
        from \in OriginChains, to \in TargetChains}

NoNear == [lookup |-> <<FALSE, "">>, asset |-> "", registered |-> {}]

\* a call: the function and the bytes it is given, with (for the
\* properties) the transfer the bytes encode and the NEAR contracts as they
\* are when the call starts
RedeemCall(fn, t, nr) ==
    [fn |-> fn, vaa |-> t, payload |-> TransferPayload(t), near |-> nr]

NearStates ==
    {[lookup |-> l, asset |-> a, registered |-> r] :
        l \in {<<FALSE, "">>} \cup {<<TRUE, u>> : u \in Accounts},
        a \in {"", "wrapped-token"},
        r \in SUBSET Accounts}

RedeemInit ==
    /\ InitWatcher
    /\ decodeIn = NoData
    /\ decodeOut = <<>>
    /\ redeemIn \in
          {RedeemCall("redeemOnNear", t, nr) :
              t \in Transfers, nr \in NearStates}
          \cup
          {RedeemCall(fn, t, NoNear) :
              fn \in {"redeemOnSolana", "redeemAndUnwrapOnSolana"},
              t \in Transfers}
    /\ near = redeemIn.near
    /\ calls = <<>>
    /\ awaiting = "call"
    /\ redeemOut = <<>>

WatcherIdle ==
    UNCHANGED <<chain, next_sequence, pc, page, pageI, sendMsg, sendErr,
                msgs, errorCount, networkStats, ready, cancelled, runResult,
                replays, cyc, decodeVars>>

\* redeemOnNear runs from the response of the call in flight to its next
\* remote call
Proceed(nr) ==
    LET s == redeemOnNear(redeemIn.payload, awaiting, nr, Len(calls))
    IN  /\ near' = nr
        /\ awaiting' = s.awaiting
        /\ calls' = calls \o s.call
        /\ redeemOut' = s.out
        /\ UNCHANGED redeemIn
        /\ WatcherIdle

\* the call of redeemOnNear, up to its first remote call
RedeemOnNear ==
    /\ redeemIn.fn = "redeemOnNear"
    /\ awaiting = "call"
    /\ Proceed(near)

\* the awaited call succeeds
Resolve ==
    /\ redeemIn.fn = "redeemOnNear"
    /\ awaiting \notin {"idle", "call", "returned", "thrown"}
    /\ Proceed(Executed(near, calls[Len(calls)]))

\* the awaited call rejects: the exception leaves redeemOnNear
Reject ==
    /\ redeemIn.fn = "redeemOnNear"
    /\ awaiting \notin {"idle", "call", "returned", "thrown"}
    /\ awaiting' = "thrown"
    /\ redeemOut' = Throw("rejected").out
    /\ UNCHANGED <<redeemIn, near, calls>>
    /\ WatcherIdle

Finish(s) ==
    /\ awaiting = "call"
    /\ awaiting' = s.awaiting
    /\ redeemOut' = s.out
    /\ UNCHANGED <<redeemIn, near, calls>>
    /\ WatcherIdle

RedeemOnSolana(rpc) ==
    /\ redeemIn.fn = "redeemOnSolana"
    /\ Finish(redeemOnSolana(redeemIn.payload, rpc))

RedeemAndUnwrapOnSolana(rpc) ==
    /\ redeemIn.fn = "redeemAndUnwrapOnSolana"
    /\ Finish(redeemAndUnwrapOnSolana(redeemIn.payload, rpc))

RpcOutcomes == {Rpc(TRUE, 0), Rpc(FALSE, 2)}

RedeemNext ==
    \/ RedeemOnNear
    \/ Resolve
    \/ Reject
    \/ \E rpc \in RpcOutcomes : RedeemOnSolana(rpc)
    \/ \E rpc \in RpcOutcomes : RedeemAndUnwrapOnSolana(rpc)

RedeemSpec == RedeemInit /\ [][RedeemNext]_vars

\* the rescaling expression alone, over amounts and destination precisions
Precisions == (MAX_VAA_DECIMALS - 2)..(MAX_VAA_DECIMALS + 2)

RescaleInit ==
    /\ InitWatcher
    /\ decodeIn = NoData
    /\ decodeOut = <<>>
    /\ redeemIn \in {[fn |-> "targetAmount", amount |-> a, dst |-> d,
                      max |-> MAX_VAA_DECIMALS] :
                        a \in 0..MaxAmount, d \in Precisions}
    /\ near = NoNear
    /\ calls = <<>>
    /\ awaiting = "call"
    /\ redeemOut = <<>>

Rescale ==
    /\ redeemIn.fn = "targetAmount"
    /\ Finish(Return(targetAmount(redeemIn.amount, redeemIn.dst,
                                  redeemIn.max)))

RescaleSpec == RescaleInit /\ [][Rescale]_vars

\* ------------------------------------------------------------------------
\* Vocabulary of the properties
\* ------------------------------------------------------------------------
IsPoll(m) == m.origin = "poll"
IsReplay(m) == m.origin = "replay"

\* the messages the poll cycles have put on the channel, oldest first
PollMsgs == SelectSeq(msgs, IsPoll)

\* the source sequence number a message's TxHash was derived from
NativeSeq(m) == BytesValue(m.msg.TxHash, 0)

\* the source events are valid: complete, decodable, and for each emitter
\* the sequence grows along the event handle
ValidSource ==
    /\ \A i \in 1..Len(chain) :
          /\ chain[i].has = ChunkFields
          /\ observeData(chain[i].data, chain[i].sequence_number).kind = "emit"
    /\ \A i, j \in 1..Len(chain) :
          (i < j /\ chain[i].data.sender = chain[j].data.sender)
              => chain[i].data.sequence < chain[j].data.sequence

\* ------------------------------------------------------------------------
\* C1
\* ------------------------------------------------------------------------

\* C1 as stated: for valid source events the messages of the poll cycles
\* have strictly increasing Sequence, in input order.
C1_SequenceIncreasing ==
    ValidSource =>
        \A i, j \in 1..Len(PollMsgs) :
            i < j => PollMsgs[i].msg.Sequence < PollMsgs[j].msg.Sequence

\* C1 amended: the messages of the poll cycles follow the input order
\* without a duplicate (strictly increasing source sequence number), and for
\* valid source events the messages of one emitter address have strictly
\* increasing Sequence.
C1_InputOrderPerEmitter ==
    /\ \A i, j \in 1..Len(PollMsgs) :
          i < j => NativeSeq(PollMsgs[i]) < NativeSeq(PollMsgs[j])
    /\ ValidSource =>
          \A i, j \in 1..Len(PollMsgs) :
              (/\ i < j
               /\ PollMsgs[i].msg.EmitterAddress = PollMsgs[j].msg.EmitterAddress)
                  => PollMsgs[i].msg.Sequence < PollMsgs[j].msg.Sequence

\* two messages of one emitter, put on the channel by two poll cycles
C1_Witness ==
    /\ ValidSource
    /\ Len(PollMsgs) = 2
    /\ PollMsgs[1].msg.EmitterAddress = PollMsgs[2].msg.EmitterAddress
    /\ cyc.kind = "poll" /\ cyc.sent = 1 /\ pc = "select"

\* ------------------------------------------------------------------------
\* C2
\* ------------------------------------------------------------------------
ReplayMsgs == SelectSeq(msgs, IsReplay)

\* the first chunk of the replay response is the requested event and decodes
ReplayMatches ==
    /\ page # <<>>
    /\ page[1].has = ChunkFields
    /\ page[1].sequence_number = cyc.start
    /\ observeData(page[1].data, cyc.start).kind = "emit"

\* C2 as stated: a message of a replay cycle for requested sequence S has
\* Sequence equal to S.
C2_SequenceEqualsRequest ==
    \A i \in 1..Len(ReplayMsgs) :
        ReplayMsgs[i].msg.Sequence = ReplayMsgs[i].start

\* C2 amended: a replay cycle for requested sequence S emits at most one
\* message; it emits one exactly when the returned event is numbered S and
\* decodes, and nothing on mismatch; the message is the decoding of the
\* source event numbered S and its TxHash encodes S (its Sequence field is
\* the event's own sequence value).
C2_ReplayEmitsRequested ==
    /\ \A i \in 1..Len(ReplayMsgs) :
          LET m == ReplayMsgs[i]
          IN  /\ NativeSeq(m) = m.start
              /\ m.start < Len(chain)
              /\ <<m.msg>> = observeData(chain[m.start + 1].data, m.start).msg
              /\ m.msg.Sequence = chain[m.start + 1].data.sequence
    /\ cyc.kind = "replay" => cyc.sent <= 1
    /\ (cyc.kind = "replay" /\ pc = "select") =>
          cyc.sent = (IF cyc.query = "json" /\ ReplayMatches THEN 1 ELSE 0)

\* a replay cycle has emitted the requested event, whose Sequence differs
\* from the requested source sequence number
C2_Witness ==
    /\ cyc.kind = "replay" /\ pc = "select" /\ cyc.sent = 1
    /\ ReplayMsgs[Len(ReplayMsgs)].msg.Sequence # cyc.start

\* ------------------------------------------------------------------------
\* C3
\* ------------------------------------------------------------------------

\* C3: a failure of the health query is never fatal: its error is not
\* handed to Run and Run does not return it.
C3_HealthFailureNotFatal ==
    /\ runResult # "health"
    /\ ~(pc = "send_err" /\ sendErr = "health")

\* ------------------------------------------------------------------------
\* C4, C5
\* ------------------------------------------------------------------------
Numbered(p) == {i \in 1..Len(p) : "sequence_number" \in p[i].has}

\* the largest sequence number seen in a page with a numbered chunk
MaxSeen(p) ==
    CHOOSE n \in {p[i].sequence_number : i \in Numbered(p)} :
        \A i \in Numbered(p) : p[i].sequence_number <= n

\* the last n messages put on the channel
LastMsgs(n) == [i \in 1..n |-> msgs[Len(msgs) - n + i].msg]

WellFormed(chunk) ==
    /\ chunk.has = ChunkFields
    /\ observeData(chunk.data, chunk.sequence_number).kind = "emit"

IsExpected(chunk) == WellFormed(chunk) /\ chunk.sequence_number >= cyc.start

Decoded(p) ==
    [i \in 1..Len(p) |-> observeData(p[i].data, p[i].sequence_number).msg[1]]

\* C4: a poll cycle that starts with the cursor at 0 and receives an event
\* emits no message and leaves the cursor at the largest observed sequence
\* number plus one.
C4_ColdStart ==
    (/\ cyc.kind = "poll" /\ cyc.query = "json" /\ cyc.start = 0
     /\ Numbered(page) # {})
        => /\ cyc.sent = 0
           /\ pc \notin {"send_msg", "panic"}
           /\ next_sequence = MaxSeen(page) + 1

\* a cold start on a chain that already holds two events
C4_Witness ==
    /\ cyc.kind = "poll" /\ cyc.query = "json" /\ cyc.start = 0
    /\ Len(chain) >= 2 /\ WellFormed(chain[1]) /\ WellFormed(chain[2])
    /\ next_sequence = 2
    /\ msgs = <<>>

\* what a finished warm poll cycle has emitted and where it left the cursor
WarmPollExact ==
    (/\ cyc.kind = "poll" /\ cyc.query = "json" /\ cyc.start # 0
     /\ pc \in {"select", "send_err"})
        => /\ cyc.sent <= Len(msgs)
           /\ LastMsgs(cyc.sent) = Decoded(SelectSeq(page, IsExpected))
           /\ Numbered(page) # {} => next_sequence = MaxSeen(page) + 1

\* C5: a poll cycle that starts with an initialized cursor C emits exactly
\* the well-formed events of the page with sequence >= C, in order, and ends
\* with the cursor at the largest sequence number seen plus one.
C5_WarmPoll ==
    /\ WarmPollExact
    /\ (cyc.kind = "poll" /\ cyc.start # 0) => pc # "panic"

\* ------------------------------------------------------------------------
\* C6
\* ------------------------------------------------------------------------
Emitted(n) == \E i \in 1..Len(msgs) : IsPoll(msgs[i]) /\ NativeSeq(msgs[i]) = n

\* a transport failure has occurred: its error is being sent or was returned
TransportFailed ==
    pc = "send_err" \/ runResult \in {"poll", "replay", "health"}

\* the well-formed event numbered n is at or after the initialized cursor
Awaited(n) ==
    /\ next_sequence # 0
    /\ next_sequence <= n
    /\ n < Len(chain)
    /\ WellFormed(chain[n + 1])

\* C6: once the cursor is initialized, every well-formed source event at or
\* after it is eventually emitted, unless a transport failure occurs or the
\* context is cancelled.
C6_AtLeastOnce ==
    \A n \in 0..(MaxEvents - 1) :
        Awaited(n) ~> (Emitted(n) \/ TransportFailed \/ cancelled)

\* ------------------------------------------------------------------------
\* C7
\* ------------------------------------------------------------------------

\* C7: observeData drops an event that misses one of the six keys, whatever
\* the values of the keys that are present: no panic and no message.
C7_MissingFieldDrops ==
    (decodeOut # <<>> /\ decodeIn.has # DataFields)
        => decodeOut[1].kind = "drop"

\* ------------------------------------------------------------------------
\* C8, C9, C10
\* ------------------------------------------------------------------------
Failed(kind) == Body(kind, <<>>)

\* a step in which the primary event query answers with a body of this kind
QueryStep(kind) ==
    \/ \E h \in HealthBodies : PollTick(Failed(kind), h)
    \/ /\ \E r \in ControlRequests : ReplayRequest(r, Failed(kind))
       /\ pc' # "panic"

\* C8: a transport failure of the primary event query counts one error,
\* emits no message in that cycle and hands the error to Run, whose return
\* of that error is the only way the loop leaves the send.
C8_TransportFatal ==
    [][/\ QueryStep("err") =>
            /\ errorCount' = errorCount + 1
            /\ msgs' = msgs
            /\ cyc'.sent = 0
            /\ pc' = "send_err"
            /\ sendErr' = cyc'.kind
            /\ runResult' = runResult
       /\ (pc = "send_err" /\ sendErr \in {"poll", "replay"}) =>
            \/ pc' = "send_err" /\ sendErr' = sendErr /\ msgs' = msgs
            \/ runResult = "running" /\ runResult' = sendErr /\ msgs' = msgs
      ]_vars

\* Run has returned the transport error of a poll cycle that came after an
\* emission
C8_Witness ==
    /\ runResult = "poll"
    /\ cyc.kind = "poll" /\ cyc.query = "err" /\ cyc.sent = 0
    /\ errorCount = 1
    /\ msgs # <<>>

\* C9: a malformed response of the primary event query counts one error,
\* emits nothing, leaves the cursor, does not make Run return and leaves the
\* loop at its select, ready for the next cycle.
C9_MalformedNotFatal ==
    [][QueryStep("invalid") =>
            /\ errorCount' = errorCount + 1
            /\ msgs' = msgs
            /\ cyc'.sent = 0
            /\ next_sequence' = next_sequence
            /\ runResult' = runResult
            /\ pc' = "select"
            /\ sendErr' = "none"
      ]_vars

\* a malformed response was counted after an emission and Run is running
C9_Witness ==
    /\ cyc.query = "invalid" /\ cyc.kind = "poll"
    /\ errorCount = 1
    /\ pc = "select"
    /\ runResult = "running"
    /\ next_sequence # 0
    /\ msgs # <<>>

\* C10: every poll tick whose event query answers (empty body, malformed
\* response, no events, events emitted) queries the health endpoint before
\* the tick ends.
C10_HealthEveryTick ==
    (/\ cyc.kind = "poll"
     /\ cyc.query \in {"empty", "invalid", "json"}
     /\ pc \in {"select", "done"})
        => cyc.health # "none"

\* C11: once the context is cancelled, Run returns and the goroutine of the
\* loop terminates, whether or not anybody still receives from msgChan or
\* from errC (a process that died of a panic has terminated too).
C11_CancelTerminates ==
    cancelled ~> (pc = "panic" \/ (runResult # "running" /\ pc = "done"))

\* the half of C11 that the code keeps: Run itself returns
C11_RunReturns == cancelled ~> (pc = "panic" \/ runResult # "running")

\* the decimal value of a sender string of EmitterCases
EmitterValue(s) == (CHOOSE c \in EmitterCases : c[1] = s)[2]

\* C12: on an otherwise complete event, the sender "0" gives the all-zero
\* emitter address; a decimal sender of value n > 0 gives the address whose
\* first 24 bytes are zero and whose last 8 bytes are n in big-endian; a
\* sender that is no decimal number makes observeData drop the event.
C12_EmitterParsing ==
    decodeOut # <<>> =>
        LET out == decodeOut[1]
            s == decodeIn.sender
            n == EmitterValue(s)
            a == out.msg[1].EmitterAddress
        IN  /\ s = <<"0">> => out.kind = "emit" /\ a = Zeros(32)
            /\ n > 0 =>
                  /\ out.kind = "emit"
                  /\ Len(a) = 32
                  /\ SubSeq(a, 1, 24) = Zeros(24)
                  /\ BytesValue(SubSeq(a, 25, 32), 0) = n
            /\ n = -1 => out = Drop

C12_Witness ==
    /\ decodeOut # <<>>
    /\ decodeIn.sender = <<"6", "5", "5", "3", "6">>
    /\ decodeOut[1].kind = "emit"
    /\ decodeOut[1].msg[1].EmitterAddress = Zeros(29) \o <<1, 0, 0>>

\* ------------------------------------------------------------------------
\* Vocabulary of the properties of the redeemers
\* ------------------------------------------------------------------------
Redeemed == redeemOut # <<>>
Threw == Redeemed /\ redeemOut[1].kind = "error"
Returned == Redeemed /\ redeemOut[1].kind = "return"

IsNear == redeemIn.fn = "redeemOnNear"

\* the chain a redeemer redeems on
RedemptionChain ==
    IF IsNear THEN CHAIN_ID_NEAR ELSE CHAIN_ID_SOLANA

Issued(methodName) ==
    {i \in 1..Len(calls) : calls[i].methodName = methodName}

StateChanging == {i \in 1..Len(calls) : calls[i].change}

\* C13: a redeemer whose certified message targets another chain than the
\* one it redeems on issues no state-changing call and ends with an error,
\* never with a transaction.
C13_WrongTargetRejected ==
    (/\ redeemIn.fn \in {"redeemOnNear", "redeemOnSolana",
                         "redeemAndUnwrapOnSolana"}
     /\ redeemIn.vaa.ToChain # RedemptionChain)
    => /\ StateChanging = {}
       /\ Redeemed => Threw

\* the part of C13 that the code keeps: redeemOnNear issues no call at all
C13_NearTargetChecked ==
    (IsNear /\ redeemIn.vaa.ToChain # CHAIN_ID_NEAR)
    => calls = <<>> /\ (Redeemed => Threw)

DepositsFor(a) == {i \in Issued("storage_deposit") : calls[i].args = a}

FeeNonZero ==
    redeemIn.vaa.Type = 1 /\ redeemIn.vaa.Fee # ZeroAddress

\* account a needs a registration by this call: it is the receiver, or the
\* fee payer of a non-zero fee, and was not registered when the call began
Unregistered(a) ==
    /\ a \notin redeemIn.near.registered
    /\ \/ a = redeemIn.near.lookup[2]
       \/ a = clientAccountId /\ FeeNonZero

RegistrationsPrecede ==
    \A i \in Issued("storage_deposit"), j \in Issued("submit_vaa") : i < j

\* C14 as stated: once redeemOnNear has issued submit_vaa, every account
\* that needed a registration got exactly one storage_deposit, before the
\* first submit_vaa, and every other account got none.
C14_Registration ==
    (IsNear /\ Issued("submit_vaa") # {})
    => /\ RegistrationsPrecede
       /\ \A a \in Accounts :
             Cardinality(DepositsFor(a)) = IF Unregistered(a) THEN 1 ELSE 0

\* C14: the same for an asset whose contract address is not all-zero; for
\* the all-zero address redeemOnNear issues no storage_deposit at all.
C14_RegistrationOfTokens ==
    (IsNear /\ Issued("submit_vaa") # {})
    => /\ RegistrationsPrecede
       /\ \A a \in Accounts :
             Cardinality(DepositsFor(a)) =
                 IF redeemIn.vaa.Contract # ZeroAddress /\ Unregistered(a)
                 THEN 1 ELSE 0

C14_Witness ==
    /\ IsNear
    /\ Issued("submit_vaa") # {}
    /\ redeemIn.near.lookup[2] = "alice"
    /\ Cardinality(DepositsFor("alice")) = 1
    /\ Cardinality(DepositsFor(clientAccountId)) = 1

C16_UnwrapTransaction ==
    (redeemIn.fn = "redeemAndUnwrapOnSolana" /\ Returned)
    => LET tx == redeemOut[1].value
       IN  /\ [i \in 1..Len(tx.instructions) |-> tx.instructions[i].name]
                = <<"complete_transfer_native", "createAccount",
                    "initAccount", "transfer", "closeAccount">>
           /\ tx.signatures = {tx.instructions[2].newAccountPubkey}
           /\ payerAddress \notin tx.signatures
           /\ tx.feePayer \notin tx.signatures

C16_Witness ==
    /\ redeemIn.fn = "redeemAndUnwrapOnSolana"
    /\ Returned
    /\ Len(redeemOut[1].value.instructions) = 5

RECURSIVE Pow10(_)
Pow10(n) == IF n = 0 THEN 1 ELSE 10 * Pow10(n - 1)

C17_AtWsolDecimals ==
    (/\ redeemIn.fn = "targetAmount" /\ Returned
     /\ redeemIn.dst = WSOL_DECIMALS)
    => redeemOut[1].value = redeemIn.amount * 10

\* C18: the transaction redeemOnSolana returns holds exactly one
\* instruction: the native completion when the origin chain of the
\* transfer is Solana, the wrapped completion for every other origin chain.
C18_EntrypointSelection ==
    (redeemIn.fn = "redeemOnSolana" /\ Returned)
    => LET ixs == redeemOut[1].value.instructions
       IN  /\ Len(ixs) = 1
           /\ ixs[1].name =
                 IF redeemIn.vaa.FromChain = CHAIN_ID_SOLANA
                 THEN "complete_transfer_native"
                 ELSE "complete_transfer_wrapped"

C18_Witness ==
    /\ redeemIn.fn = "redeemOnSolana"
    /\ Returned
    /\ redeemIn.vaa.FromChain = 256 + CHAIN_ID_SOLANA
    /\ redeemOut[1].value.instructions[1].name = "complete_transfer_wrapped"

\* redeemOnNear got past its three checks: it issued a call of a line
\* after line 278
PassedChecks == \E i \in 1..Len(calls) : calls[i].site > 278

C20_ReplayRoundTrip ==
    [][\A r \in Requests, body \in Answering(ReplayBodies) :
          (/\ ReplayRequest(r, body)
           /\ Len(r.TxHash) = 32
           /\ \E i \in 1..Len(msgs) :
                 IsPoll(msgs[i]) /\ msgs[i].msg.TxHash = r.TxHash)
          => cyc'.start = BytesValue(r.TxHash, 0)
      ]_vars

\* Run has returned the error of a failed event query
ReturnedFatal == runResult \in {"poll", "replay"}

\* C21: once Run has returned a fatal transport error and the context is
\* not cancelled, the loop starts no further poll or replay cycle and the
\* consumer receives no further message.
C21_StopsAfterFatal ==
    [][(ReturnedFatal /\ ~cancelled) => (cyc' = cyc /\ msgs' = msgs)]_vars

====
